---- MODULE Spec2Model ----
(***************************************************************************)
(* State-machine model of src/src/App.tsx: the App component (model        *)
(* loading, camera acquisition, captureImage, render) and HeightMapMesh.   *)
(*                                                                         *)
(* Representation.                                                         *)
(*  - A canvas, a video frame and an ImageData are records [w, h, px]      *)
(*    with px a sequence of w*h pixels in row-major order, each pixel the  *)
(*    triple <<R, G, B>> of its bytes (alpha plays no part in the code's   *)
(*    arithmetic).                                                         *)
(*  - A Float32Array of heights is a sequence of numerators over HeightDen *)
(*    (data[i] / 255 is stored as the byte data[i]); NaN and the           *)
(*    `undefined` of an out-of-range typed-array read are the two          *)
(*    negative sentinels NaN and Undefined.                                *)
(*  - React state that may be null is a record [isNull, data].             *)
(*  - A detection is the outcome of the awaited face-api call; the filled  *)
(*    head path of a detection (a function of the detection's box and jaw  *)
(*    outline alone) is given as the set of pixel coordinates <<x, y>> it  *)
(*    covers.                                                              *)
(***************************************************************************)
EXTENDS Integers, Sequences, FiniteSets, TLC

VARIABLES
    loadPc,         \* position of loadModels: "tiny", "landmark", "done", "failed"
    tinyLoaded,     \* faceapi.nets.tinyFaceDetector is loaded
    landmarkLoaded, \* faceapi.nets.faceLandmark68Net is loaded
    modelsLoaded,   \* React state
    error,          \* React state (NoError is null)
    heightMap,      \* React state
    imageData,      \* React state
    camera,         \* getUserMedia promise: "pending", "granted", "denied"
    videoDims,      \* <<video.videoWidth, video.videoHeight>>
    canvas,         \* canvasRef.current
    faceCanvas,     \* faceCanvasRef.current
    tasks,          \* captureImage calls suspended at the await of line 89
    clicks,         \* number of clicks on "Capture Image" so far
    meshProps,      \* props of the mounted HeightMapMesh (as of the last render)
    vertices,       \* geometry.attributes.position.array of the mesh
    pubs,           \* history: number of captures that reached line 204
    last            \* history: the step taken last; for a capture that
                    \* published (op "publish"), the frame it drew at its
                    \* click, the head path of its detection, and whether it
                    \* ran with no other capture in flight

vars == <<loadPc, tinyLoaded, landmarkLoaded, modelsLoaded, error, heightMap,
          imageData, camera, videoDims, canvas, faceCanvas, tasks, clicks,
          meshProps, vertices, pubs, last>>

----------------------------------------------------------------------------
(* Bounds of the model *)

MaxCaptures == 2
MaxInFlight == 2

\* HeightMapMesh taken alone: largest width and height, longest heightMap
MaxMeshDim == 2
MaxMeshLen == 4

\* native resolutions the stream can have
Resolutions == { <<1, 1>>, <<2, 1>>, <<1, 2>> }

\* pixel colours of a video frame
Colors == { <<0, 0, 2>>, <<200, 100, 52>> }

----------------------------------------------------------------------------
(* Values *)

HeightDen == 255
NaN == -1
Undefined == -2

NoError == "null"
LoadFailedMsg == "Failed to load face detection models. Please check the console for details."
CameraFailedMsg == "Failed to access camera. Please ensure you have granted camera permissions."
StillLoadingMsg == "Face detection models are still loading. Please wait."
NoFaceMsg == "No face detected. Please ensure your face is visible in the camera."
CaptureErrorMsg == "An error occurred during image capture. Please check the console for details."

NullHeightMap == [isNull |-> TRUE, data |-> <<>>]
SomeHeightMap(d) == [isNull |-> FALSE, data |-> d]

NullImage == [isNull |-> TRUE, data |-> [w |-> 0, h |-> 0, px |-> <<>>]]
SomeImage(c) == [isNull |-> FALSE, data |-> c]

NoMesh == [mounted |-> FALSE, heightMap |-> <<>>, width |-> 0, height |-> 0]

NoFrame == [w |-> 0, h |-> 0, px |-> <<>>]
Step(op) == [op |-> op, frame |-> NoFrame, region |-> {}, alone |-> FALSE]

Black == <<0, 0, 0>>
White == <<255, 255, 255>>

\* a fresh canvas element is 300 x 150 transparent black; no code reads it
\* before the first assignment of its width, so its pixels are left out
DefaultCanvas == [w |-> 300, h |-> 150, px |-> <<>>]

\* the frames the stream can deliver at resolution d
FramesOf(d) ==
    { [w |-> d[1], h |-> d[2], px |-> p] : p \in [1 .. d[1] * d[2] -> Colors] }

\* the pixel coordinates of a w x h bitmap
CoordsOf(w, h) == (0 .. w - 1) \X (0 .. h - 1)

----------------------------------------------------------------------------
(* Canvas operations *)

\* canvas.width = w; canvas.height = h: the bitmap is reset to transparent black
ResetCanvas(w, h) == [w |-> w, h |-> h, px |-> [k \in 1 .. w * h |-> Black]]

\* faulty variant of DrawImage: the frame is drawn before the canvas is sized, and
\* the sizing then clears it
DrawImage_BeforeResize(cv, f) == cv

\* context.drawImage(video, 0, 0): the frame's pixels, clipped to the canvas
DrawImage(cv, f) ==
    [cv EXCEPT !.px =
        [k \in 1 .. cv.w * cv.h |->
            LET x == (k - 1) % cv.w
                y == (k - 1) \div cv.w
            IN  IF x < f.w /\ y < f.h THEN f.px[y * f.w + x + 1] ELSE cv.px[k]]]

\* faceContext.clearRect(0, 0, faceCanvas.width, faceCanvas.height)
ClearRect(cv) == [cv EXCEPT !.px = [k \in 1 .. cv.w * cv.h |-> Black]]

\* fillStyle 'white', beginPath ... closePath, fill: the pixels inside the
\* path become white, the others keep what they hold
Fill(cv, region) ==
    [cv EXCEPT !.px =
        [k \in 1 .. cv.w * cv.h |->
            IF <<(k - 1) % cv.w, (k - 1) \div cv.w>> \in region
            THEN White ELSE cv.px[k]]]

\* faulty variant of ToUint8Clamp: the store truncates, as Math.floor would
ToUint8Clamp_Truncate(num, den) ==
    LET n == num \div den
    IN  IF n > 255 THEN 255 ELSE IF n < 0 THEN 0 ELSE n

\* the store of a number num/den >= 0 into a Uint8ClampedArray element:
\* round to nearest, ties to even, clamp to 0..255
ToUint8Clamp(num, den) ==
    LET q == num \div den
        r == num % den
        n == IF 2 * r < den THEN q
             ELSE IF 2 * r > den THEN q + 1
             ELSE IF q % 2 = 0 THEN q ELSE q + 1
    IN  IF n > 255 THEN 255 ELSE IF n < 0 THEN 0 ELSE n

\* lines 180-193: grayscale inside the mask, black outside
MaskApply(data, faceMask) ==
    [k \in 1 .. Len(data) |->
        IF faceMask[k][1] = 255
        THEN LET avg == ToUint8Clamp(data[k][1] + data[k][2] + data[k][3], 3)
             IN  <<avg, avg, avg>>
        ELSE Black]

\* lines 199-202: new Float32Array(width * height), entry i/4 = data[i] / 255
\* (entries beyond data stay 0; stores beyond the array are dropped)
HeightMapData(data, w, h) ==
    [k \in 1 .. w * h |-> IF k <= Len(data) THEN data[k][1] ELSE 0]

----------------------------------------------------------------------------
(* HeightMapMesh *)

\* <planeGeometry args={[10, 10, width - 1, height - 1]}>: width x height
\* vertices, row by row, flat as x0, y0, z0, x1, ...; x and y are given in
\* grid units (column, row), z is 0
PlaneGeometry(width, height) ==
    [i \in 1 .. 3 * width * height |->
        LET v == (i - 1) \div 3
        IN  CASE (i - 1) % 3 = 0 -> v % width
              [] (i - 1) % 3 = 1 -> v \div width
              [] OTHER -> 0]

\* heightMap[idx] of a Float32Array (idx is 0-based)
TypedArrayGet(hm, idx) ==
    IF idx >= 0 /\ idx < Len(hm) THEN hm[idx + 1] ELSE Undefined

\* v || 0 for a number or undefined
OrZero(v) == IF v = Undefined \/ v = NaN \/ v = 0 THEN 0 ELSE v

\* faulty variant of MeshZ: the exaggeration factor is left out
MeshZ_NoScale(heightValue) == IF heightValue = NaN THEN 0 ELSE heightValue

\* line 259: isNaN(heightValue) ? 0 : heightValue * 2
MeshZ(heightValue) == IF heightValue = NaN THEN 0 ELSE heightValue * 2

\* the loop of lines 253-260, from i (0-based, a multiple of 3) on
RECURSIVE MeshLoop(_, _, _, _)
MeshLoop(vs, i, hm, width) ==
    IF i >= Len(vs) THEN vs
    ELSE LET x == (i \div 3) % width
             y == (i \div 3) \div width
             heightValue == OrZero(TypedArrayGet(hm, y * width + x))
         IN  MeshLoop([vs EXCEPT ![i + 3] = MeshZ(heightValue)], i + 3, hm, width)

\* the effect of lines 247-266 on the position array
HeightMapMeshEffect(vs, hm, width, height) == MeshLoop(vs, 0, hm, width)

\* line 235: the props App hands to HeightMapMesh when it renders
RenderMesh(hm, cv) ==
    IF hm.isNull THEN NoMesh
    ELSE [mounted |-> TRUE, heightMap |-> hm.data, width |-> cv.w, height |-> cv.h]

\* the position array after a render committed props new over props old:
\* the geometry is rebuilt when its args change, and the effect re-runs when
\* one of its dependencies (heightMap, width, height) changed; fresh tells
\* that heightMap is a new Float32Array
CommitMesh(old, new, vs, fresh) ==
    IF ~new.mounted THEN <<>>
    ELSE LET sameArgs == old.mounted /\ old.width = new.width /\ old.height = new.height
             geom == IF sameArgs THEN vs ELSE PlaneGeometry(new.width, new.height)
         IN  IF sameArgs /\ ~fresh THEN geom
             ELSE HeightMapMeshEffect(geom, new.heightMap, new.width, new.height)

\* a React state update is followed by a render of App unless the state is
\* left as it was
Rerender(fresh) ==
    LET changed == fresh \/ <<modelsLoaded', error', heightMap', imageData'>>
                            # <<modelsLoaded, error, heightMap, imageData>>
        new == IF changed THEN RenderMesh(heightMap', canvas') ELSE meshProps
    IN  /\ meshProps' = new
        /\ vertices' = CommitMesh(meshProps, new, vertices, fresh)

----------------------------------------------------------------------------
(* Initial state: App mounted, both effects started *)

Init ==
    /\ loadPc = "tiny"
    /\ tinyLoaded = FALSE
    /\ landmarkLoaded = FALSE
    /\ modelsLoaded = FALSE
    /\ error = NoError
    /\ heightMap = NullHeightMap
    /\ imageData = NullImage
    /\ camera = "pending"
    /\ videoDims = <<0, 0>>
    /\ canvas = DefaultCanvas
    /\ faceCanvas = DefaultCanvas
    /\ tasks = {}
    /\ clicks = 0
    /\ meshProps = NoMesh
    /\ vertices = <<>>
    /\ pubs = 0
    /\ last = Step("init")

----------------------------------------------------------------------------
(* loadModels, lines 19-33 *)

\* faulty variant of LoadTinyOk: setModelsLoaded(true) after the first load
LoadTinyOk_SetsLoaded ==
    /\ last' = Step("loadTinyOk")
    /\ loadPc = "tiny"
    /\ loadPc' = "landmark"
    /\ tinyLoaded' = TRUE
    /\ modelsLoaded' = TRUE
    /\ UNCHANGED <<landmarkLoaded, error, heightMap, imageData, camera,
                   videoDims, canvas, faceCanvas, tasks, clicks, pubs>>
    /\ Rerender(FALSE)

LoadTinyOk ==
    /\ last' = Step("loadTinyOk")
    /\ loadPc = "tiny"
    /\ loadPc' = "landmark"
    /\ tinyLoaded' = TRUE
    /\ UNCHANGED <<landmarkLoaded, modelsLoaded, error, heightMap, imageData,
                   camera, videoDims, canvas, faceCanvas, tasks, clicks,
                   meshProps, vertices, pubs>>

LoadLandmarkOk ==
    /\ last' = Step("loadLandmarkOk")
    /\ loadPc = "landmark"
    /\ loadPc' = "done"
    /\ landmarkLoaded' = TRUE
    /\ modelsLoaded' = TRUE
    /\ UNCHANGED <<tinyLoaded, error, heightMap, imageData, camera, videoDims,
                   canvas, faceCanvas, tasks, clicks, pubs>>
    /\ Rerender(FALSE)

\* either loadFromUri rejects: the catch of line 28
LoadFail ==
    /\ last' = Step("loadFail")
    /\ loadPc \in {"tiny", "landmark"}
    /\ loadPc' = "failed"
    /\ error' = LoadFailedMsg
    /\ UNCHANGED <<tinyLoaded, landmarkLoaded, modelsLoaded, heightMap,
                   imageData, camera, videoDims, canvas, faceCanvas, tasks,
                   clicks, pubs>>
    /\ Rerender(FALSE)

----------------------------------------------------------------------------
(* camera effect, lines 36-50 *)

\* getUserMedia resolves: srcObject is set; the video has no dimensions
\* until the stream's metadata arrives
CameraGranted ==
    /\ last' = Step("cameraGranted")
    /\ camera = "pending"
    /\ camera' = "granted"
    /\ UNCHANGED <<loadPc, tinyLoaded, landmarkLoaded, modelsLoaded, error,
                   heightMap, imageData, videoDims, canvas, faceCanvas, tasks,
                   clicks, meshProps, vertices, pubs>>

CameraDenied ==
    /\ last' = Step("cameraDenied")
    /\ camera = "pending"
    /\ camera' = "denied"
    /\ error' = CameraFailedMsg
    /\ UNCHANGED <<loadPc, tinyLoaded, landmarkLoaded, modelsLoaded, heightMap,
                   imageData, videoDims, canvas, faceCanvas, tasks, clicks, pubs>>
    /\ Rerender(FALSE)

\* the live stream sets or changes video.videoWidth / video.videoHeight
VideoResize ==
    /\ last' = Step("videoResize")
    /\ camera = "granted"
    /\ \E d \in Resolutions : d # videoDims /\ videoDims' = d
    /\ UNCHANGED <<loadPc, tinyLoaded, landmarkLoaded, modelsLoaded, error,
                   heightMap, imageData, camera, canvas, faceCanvas, tasks,
                   clicks, meshProps, vertices, pubs>>

----------------------------------------------------------------------------
(* captureImage, lines 52-212.  The three refs are attached whenever the   *)
(* button can be clicked and getContext('2d') of a canvas that only ever   *)
(* has 2d contexts is not null, so the returns of lines 56 and 72 are not  *)
(* taken.                                                                  *)

\* faulty variant of CaptureNotLoaded: the return of line 61 is missing, and the
\* capture goes on to the snapshot and the detection
CaptureNotLoaded_NoReturn ==
    /\ last' = Step("notLoaded")
    /\ clicks < MaxCaptures
    /\ Cardinality(tasks) < MaxInFlight
    /\ ~modelsLoaded
    /\ clicks' = clicks + 1
    /\ error' = StillLoadingMsg
    /\ \E f \in FramesOf(videoDims) :
        /\ canvas' = DrawImage(ResetCanvas(videoDims[1], videoDims[2]), f)
        /\ faceCanvas' = ResetCanvas(videoDims[1], videoDims[2])
        /\ tasks' = { [t EXCEPT !.alone = FALSE] : t \in tasks }
                    \cup { [id |-> clicks + 1, frame |-> f, alone |-> tasks = {}] }
    /\ UNCHANGED <<loadPc, tinyLoaded, landmarkLoaded, modelsLoaded, heightMap,
                   imageData, camera, videoDims, pubs>>
    /\ Rerender(FALSE)

\* click while modelsLoaded is false: lines 58-62
CaptureNotLoaded ==
    /\ last' = Step("notLoaded")
    /\ clicks < MaxCaptures
    /\ ~modelsLoaded
    /\ clicks' = clicks + 1
    /\ error' = StillLoadingMsg
    /\ UNCHANGED <<loadPc, tinyLoaded, landmarkLoaded, modelsLoaded, heightMap,
                   imageData, camera, videoDims, canvas, faceCanvas, tasks, pubs>>
    /\ Rerender(FALSE)

\* click while modelsLoaded is true: lines 64-92, up to the await.  The
\* frame drawn is the one the stream shows at the click (none without
\* video data); frame and alone are history fields of the suspended call.
CaptureStart ==
    /\ last' = Step("start")
    /\ clicks < MaxCaptures
    /\ Cardinality(tasks) < MaxInFlight
    /\ modelsLoaded
    /\ clicks' = clicks + 1
    /\ \E f \in FramesOf(videoDims) :
        /\ canvas' = DrawImage(ResetCanvas(videoDims[1], videoDims[2]), f)
        /\ faceCanvas' = ResetCanvas(videoDims[1], videoDims[2])
        /\ tasks' = { [t EXCEPT !.alone = FALSE] : t \in tasks }
                    \cup { [id |-> clicks + 1, frame |-> f, alone |-> tasks = {}] }
    /\ UNCHANGED <<loadPc, tinyLoaded, landmarkLoaded, modelsLoaded, error,
                   heightMap, imageData, camera, videoDims, meshProps,
                   vertices, pubs>>

\* faulty variant of DetectNone: the abort also drops the published capture
DetectNone_DropsCapture(t) ==
    /\ last' = Step("none")
    /\ t \in tasks
    /\ tasks' = tasks \ {t}
    /\ error' = NoFaceMsg
    /\ heightMap' = NullHeightMap
    /\ imageData' = NullImage
    /\ UNCHANGED <<loadPc, tinyLoaded, landmarkLoaded, modelsLoaded, camera,
                   videoDims, canvas, faceCanvas, clicks, pubs>>
    /\ Rerender(FALSE)

\* the await resolves with undefined: lines 94-98
DetectNone(t) ==
    /\ last' = Step("none")
    /\ t \in tasks
    /\ tasks' = tasks \ {t}
    /\ error' = NoFaceMsg
    /\ UNCHANGED <<loadPc, tinyLoaded, landmarkLoaded, modelsLoaded, heightMap,
                   imageData, camera, videoDims, canvas, faceCanvas, clicks, pubs>>
    /\ Rerender(FALSE)

\* the await rejects: the catch of lines 208-211
DetectThrows(t) ==
    /\ last' = Step("throws")
    /\ t \in tasks
    /\ tasks' = tasks \ {t}
    /\ error' = CaptureErrorMsg
    /\ UNCHANGED <<loadPc, tinyLoaded, landmarkLoaded, modelsLoaded, heightMap,
                   imageData, camera, videoDims, canvas, faceCanvas, clicks, pubs>>
    /\ Rerender(FALSE)

\* the await resolves with a detection whose jaw outline is empty: lines
\* 103-146 run, jawLine[-1].x at line 152 throws a TypeError before fill
DetectEmptyJaw(t) ==
    /\ last' = Step("emptyJaw")
    /\ t \in tasks
    /\ tasks' = tasks \ {t}
    /\ faceCanvas' = ClearRect(faceCanvas)
    /\ error' = CaptureErrorMsg
    /\ UNCHANGED <<loadPc, tinyLoaded, landmarkLoaded, modelsLoaded, heightMap,
                   imageData, camera, videoDims, canvas, clicks, pubs>>
    /\ Rerender(FALSE)

\* the await resolves with a detection whose head path covers region, and
\* the canvas is empty: getImageData of line 175 throws an IndexSizeError
DetectFaceEmptyCanvas(t, region) ==
    /\ last' = Step("emptyCanvas")
    /\ t \in tasks
    /\ canvas.w = 0 \/ canvas.h = 0
    /\ tasks' = tasks \ {t}
    /\ faceCanvas' = Fill(ClearRect(faceCanvas), region)
    /\ error' = CaptureErrorMsg
    /\ UNCHANGED <<loadPc, tinyLoaded, landmarkLoaded, modelsLoaded, heightMap,
                   imageData, camera, videoDims, canvas, clicks, pubs>>
    /\ Rerender(FALSE)

\* the await resolves with a detection whose head path covers region:
\* lines 100-207
CapturePublish(t, region) ==
    /\ last' = [op |-> "publish", frame |-> t.frame, region |-> region, alone |-> t.alone]
    /\ t \in tasks
    /\ canvas.w > 0 /\ canvas.h > 0
    /\ tasks' = tasks \ {t}
    /\ faceCanvas' = Fill(ClearRect(faceCanvas), region)
    /\ LET data == MaskApply(canvas.px, faceCanvas'.px)
       IN  /\ canvas' = [canvas EXCEPT !.px = data]
           /\ heightMap' = SomeHeightMap(HeightMapData(data, canvas.w, canvas.h))
    /\ imageData' = SomeImage(canvas')
    /\ error' = NoError
    /\ pubs' = pubs + 1
    /\ UNCHANGED <<loadPc, tinyLoaded, landmarkLoaded, modelsLoaded, camera,
                   videoDims, clicks>>
    /\ Rerender(TRUE)

\* the head paths a detection on frame f can give
RegionsOf(f) == SUBSET CoordsOf(f.w, f.h)

Next ==
    \/ LoadTinyOk
    \/ LoadLandmarkOk
    \/ LoadFail
    \/ CameraGranted
    \/ CameraDenied
    \/ VideoResize
    \/ CaptureNotLoaded
    \/ CaptureStart
    \/ \E t \in tasks : DetectNone(t)
    \/ \E t \in tasks : DetectThrows(t)
    \/ \E t \in tasks : DetectEmptyJaw(t)
    \/ \E t \in tasks : \E region \in RegionsOf(t.frame) : DetectFaceEmptyCanvas(t, region)
    \/ \E t \in tasks : \E region \in RegionsOf(t.frame) : CapturePublish(t, region)

Spec == Init /\ [][Next]_vars

----------------------------------------------------------------------------
(* HeightMapMesh taken alone: a parent renders it with any heightMap,      *)
(* width and height (a Float32Array can hold NaN, and its length need not  *)
(* be width * height).                                                     *)

MeshValues == {0, 128, 255, NaN}

MeshMount ==
    /\ ~meshProps.mounted
    /\ \E w \in 1 .. MaxMeshDim, h \in 1 .. MaxMeshDim :
        /\ meshProps' = [mounted |-> TRUE, heightMap |-> <<>>, width |-> w, height |-> h]
        /\ vertices' = CommitMesh(meshProps, meshProps', vertices, TRUE)
    /\ last' = Step("meshMount")
    /\ UNCHANGED <<loadPc, tinyLoaded, landmarkLoaded, modelsLoaded, error,
                   heightMap, imageData, camera, videoDims, canvas, faceCanvas,
                   tasks, clicks, pubs>>

\* a render with another width or height, the same heightMap
MeshResize ==
    /\ meshProps.mounted
    /\ \E w \in 1 .. MaxMeshDim, h \in 1 .. MaxMeshDim :
        /\ <<w, h>> # <<meshProps.width, meshProps.height>>
        /\ meshProps' = [meshProps EXCEPT !.width = w, !.height = h]
        /\ vertices' = CommitMesh(meshProps, meshProps', vertices, FALSE)
    /\ last' = Step("meshResize")
    /\ UNCHANGED <<loadPc, tinyLoaded, landmarkLoaded, modelsLoaded, error,
                   heightMap, imageData, camera, videoDims, canvas, faceCanvas,
                   tasks, clicks, pubs>>

\* a render with a new heightMap (one entry more, one less, or one changed),
\* the same width and height
MeshNewHeightMap ==
    /\ meshProps.mounted
    /\ LET hm == meshProps.heightMap
       IN  \E new \in { Append(hm, v) : v \in MeshValues }
                      \cup { SubSeq(hm, 1, Len(hm) - 1) }
                      \cup { [hm EXCEPT ![k] = v] : k \in 1 .. Len(hm), v \in MeshValues } :
            /\ Len(new) <= MaxMeshLen
            /\ new # hm
            /\ meshProps' = [meshProps EXCEPT !.heightMap = new]
            /\ vertices' = CommitMesh(meshProps, meshProps', vertices, TRUE)
    /\ last' = Step("meshNewHeightMap")
    /\ UNCHANGED <<loadPc, tinyLoaded, landmarkLoaded, modelsLoaded, error,
                   heightMap, imageData, camera, videoDims, canvas, faceCanvas,
                   tasks, clicks, pubs>>

MeshNext == MeshMount \/ MeshResize \/ MeshNewHeightMap

MeshSpec == Init /\ [][MeshNext]_vars

----------------------------------------------------------------------------
(* Properties *)

\* the byte nearest to the mean of a pixel's R, G and B (the mean of three
\* integers is never halfway between two integers)
GrayByte(p) == CHOOSE n \in 0 .. 255 : 3 * n - (p[1] + p[2] + p[3]) \in -1 .. 1

\* the heightMap of frame f under the head path region: luminance inside
\* the path, 0 outside, row by row
HeightMapOf(f, region) ==
    [k \in 1 .. f.w * f.h |->
        IF <<(k - 1) % f.w, (k - 1) \div f.w>> \in region
        THEN GrayByte(f.px[k]) ELSE 0]

\* C1: a click while modelsLoaded is false sets the error to the "still
\* loading" message, suspends no capture at the detection call, touches
\* neither canvas, and leaves heightMap and imageData as they were
C1_StillLoading ==
    [][ (clicks' # clicks /\ ~modelsLoaded) =>
            /\ error' = StillLoadingMsg
            /\ tasks' = tasks
            /\ canvas' = canvas /\ faceCanvas' = faceCanvas
            /\ heightMap' = heightMap /\ imageData' = imageData
            /\ pubs' = pubs ]_vars

C1_Witness ==
    /\ last.op = "notLoaded"
    /\ error = StillLoadingMsg
    /\ heightMap.isNull /\ imageData.isNull

\* C2: when the detection finds no face, the capture ends with the "no face
\* detected" message and heightMap and imageData are what they were before
C2_NoFaceKeepsState ==
    [][ last'.op = "none" =>
            /\ error' = NoFaceMsg
            /\ heightMap' = heightMap
            /\ imageData' = imageData
            /\ pubs' = pubs ]_vars

\* no face after an earlier capture has published
C2_Witness ==
    /\ last.op = "none"
    /\ error = NoFaceMsg
    /\ pubs > 0 /\ ~heightMap.isNull

\* C3: a detection that throws, or that has an empty jaw outline, ends the
\* capture with the "no face detected" message
C3_DetectionFailureIsNoFace ==
    last.op \in {"throws", "emptyJaw"} => error = NoFaceMsg

\* C4: modelsLoaded only once both nets are loaded; after a failed load the
\* error is surfaced, the load stays failed, modelsLoaded stays false and no
\* capture is started or published
C4_ModelLoading ==
    /\ [](modelsLoaded => tinyLoaded /\ landmarkLoaded)
    /\ [](last.op = "loadFail" => error = LoadFailedMsg)
    /\ [](loadPc = "failed" =>
            ~modelsLoaded /\ tasks = {} /\ pubs = 0 /\ heightMap.isNull)
    /\ [][loadPc = "failed" => loadPc' = "failed" /\ ~modelsLoaded']_vars

\* clicks after a failed load
C4_Witness ==
    /\ loadPc = "failed"
    /\ clicks = MaxCaptures
    /\ tinyLoaded

\* C5: without a granted stream no capture gets to snapshot and detection
C5_NoCaptureWithoutStream ==
    camera # "granted" => tasks = {} /\ pubs = 0

\* C6: the heightMap a capture publishes has one entry per pixel of the
\* snapshot buffer it read, row by row: 0 where the mask's red byte is not
\* 255, else the byte nearest the mean of the pixel's R, G, B (over 255)
C6_HeightMapOfBuffers ==
    [][ last'.op = "publish" =>
            /\ ~heightMap'.isNull
            /\ Len(heightMap'.data) = canvas.w * canvas.h
            /\ Len(faceCanvas'.px) = canvas.w * canvas.h
            /\ \A k \in 1 .. canvas.w * canvas.h :
                LET e == heightMap'.data[k]
                    p == canvas.px[k]
                IN  /\ e \in 0 .. HeightDen
                    /\ faceCanvas'.px[k][1] # 255 => e = 0
                    /\ faceCanvas'.px[k][1] = 255 =>
                           3 * e - (p[1] + p[2] + p[3]) \in -1 .. 1 ]_vars

\* a two-pixel heightMap with a pixel inside and a pixel outside the mask
C6_Witness ==
    /\ last.op = "publish"
    /\ Len(heightMap.data) = 2
    /\ \E k, j \in 1 .. 2 :
        /\ faceCanvas.px[k][1] = 255 /\ heightMap.data[k] > 1
        /\ faceCanvas.px[j][1] # 255 /\ heightMap.data[j] = 0

\* C7: a capture that ran with no other capture in flight publishes the
\* heightMap of its own frame and detection, whatever was captured before,
\* and clears the error
C7_SequentialCaptureReplaces ==
    (last.op = "publish" /\ last.alone) =>
        /\ heightMap = SomeHeightMap(HeightMapOf(last.frame, last.region))
        /\ error = NoError

\* the second of two captures, taken after the first one published
C7_Witness ==
    /\ last.op = "publish" /\ last.alone
    /\ pubs = 2
    /\ \E k \in 1 .. Len(heightMap.data) : heightMap.data[k] = 0

\* C8: the width and height the renderer is given with a heightMap are
\* those of the frame it was derived from (the published image has them)
C8_MeshDimsMatchHeightMap ==
    meshProps.mounted =>
        /\ meshProps.width = imageData.data.w
        /\ meshProps.height = imageData.data.h
        /\ Len(meshProps.heightMap) = meshProps.width * meshProps.height

\* C9: the mesh has width x height vertices; the vertex in row r, column c
\* has depth 2 * heightMap[r * width + c], or 0 when that index is outside
\* the heightMap or the entry is NaN, and keeps its x and y
C9_MeshDepths ==
    meshProps.mounted =>
        LET w == meshProps.width
            h == meshProps.height
            hm == meshProps.heightMap
        IN  /\ Len(vertices) = 3 * w * h
            /\ \A r \in 0 .. h - 1, c \in 0 .. w - 1 :
                LET v == r * w + c
                    idx == r * w + c
                IN  /\ vertices[3 * v + 1] = c
                    /\ vertices[3 * v + 2] = r
                    /\ vertices[3 * v + 3] =
                          IF idx < Len(hm) /\ hm[idx + 1] # NaN
                          THEN 2 * hm[idx + 1] ELSE 0

\* a mesh with a vertex of positive depth, a vertex whose entry is NaN and
\* a vertex whose index is outside the heightMap
C9_Witness ==
    /\ meshProps.mounted
    /\ meshProps.width = 2 /\ meshProps.height = 2
    /\ Len(meshProps.heightMap) = 3
    /\ meshProps.heightMap[1] = 255 /\ vertices[3] = 510
    /\ meshProps.heightMap[2] = NaN /\ vertices[6] = 0
    /\ vertices[12] = 0
    /\ last.op = "meshResize"

\* C10: every capture that publishes, under any interleaving, publishes the
\* heightMap of the frame it drew at its own click and of its own detection
C10_PublishesOwnFrame ==
    last.op = "publish" =>
        heightMap.data = HeightMapOf(last.frame, last.region)

====
